---- MODULE Spec2Model ----
(***************************************************************************)
(* Model of command/ca/certificate.go: the `step ca certificate` and       *)
(* `step ca sign` actions, the token flow, the offline flow and the        *)
(* request signing against the authority.                                  *)
(*                                                                         *)
(* One invocation of the program is one behaviour.  The command line, the  *)
(* file system and the outcome of every collaborator call are chosen       *)
(* nondeterministically.  Strings that the code inspects (names, URLs,     *)
(* fingerprints, paths) are sequences of one-character strings, so that    *)
(* strings.ToLower, strings.HasPrefix and len() are computed.              *)
(***************************************************************************)
EXTENDS Integers, Sequences, FiniteSets, TLC

VARIABLES
    pc,     \* position of the invocation in the code
    ctx,    \* *cli.Context: command, arguments and flags
    env,    \* the environment: the file system and the clock
    loc,    \* local variables of the running functions
    fx,     \* effects performed so far on the collaborators and the disk
    err     \* the value the action returned ("running" before it returns)

vars == <<pc, ctx, env, loc, fx, err>>

-----------------------------------------------------------------------------
(* Bounds *)

\* the clock reads 0..MaxNow
MaxNow == 1

-----------------------------------------------------------------------------
(* Strings *)

EmptyStr == <<>>

\* unicode.ToLower on one character
LowerChar(c) ==
    CASE c = "A" -> "a"
      [] c = "B" -> "b"
      [] c = "C" -> "c"
      [] c = "H" -> "h"
      [] c = "P" -> "p"
      [] c = "S" -> "s"
      [] c = "T" -> "t"
      [] OTHER -> c

\* strings.ToLower
ToLower(s) == [i \in 1..Len(s) |-> LowerChar(s[i])]

\* strings.HasPrefix
HasPrefix(s, prefix) ==
    /\ Len(s) >= Len(prefix)
    /\ SubSeq(s, 1, Len(prefix)) = prefix

HttpPrefix == <<"h", "t", "t", "p">>

-----------------------------------------------------------------------------
(* Input values *)

\* subject names: HostA and HostAUpper differ only in case
HostA == <<"c", "a">>
HostAUpper == <<"C", "a">>
HostB == <<"c", "b">>

Names == {HostA, HostAUpper, HostB}

\* audience entries
AudHttps == <<"h", "t", "t", "p", "s", ":", "a">>
AudHttpUpper == <<"H", "T", "T", "P", ":", "a">>
AudPlain == <<"c", "a", ":", "h", "t", "t", "p">>
AudShort == <<"h", "t", "t">>

Audiences == {<<>>, <<AudHttps>>, <<AudHttpUpper>>, <<AudPlain, AudHttps>>, <<AudShort>>}

Fingerprint == <<"f", "p">>

\* --ca-url values
UrlB == <<"h", "t", "t", "p", "s", ":", "b">>

\* --root values and pki.GetRootCAPath()
RootFlagPath == <<"r">>
RootCAPath == <<"d">>
ConfigPath == <<"c", "f", "g">>

\* A token string.  len is len(token); wf tells whether it parses as a signed
\* token; the claims are what UnsafeClaimsWithoutVerification extracts.
EmptyToken ==
    [len |-> 0, wf |-> FALSE, Subject |-> EmptyStr, SHA |-> EmptyStr, Audience |-> <<>>]

MalformedToken ==
    [len |-> 1, wf |-> FALSE, Subject |-> EmptyStr, SHA |-> EmptyStr, Audience |-> <<>>]

WellFormedTokens(subjects) ==
    [len : {1}, wf : {TRUE}, Subject : subjects,
     SHA : {EmptyStr, Fingerprint}, Audience : Audiences]

\* A --not-before / --not-after value: unset, an absolute time, a duration
\* relative to now, or a string that is neither.
UnsetFlag == [kind |-> "unset", val |-> 0]
BadFlag == [kind |-> "bad", val |-> 0]
AbsFlag(t) == [kind |-> "abs", val |-> t]
DurFlag(d) == [kind |-> "dur", val |-> d]

\* time.Time{} (the zero time) is the number 0; absolute times are positive.

\* The CSR file of `step ca sign`: unreadable, another PEM object, or a CSR.
CsrFiles ==
    {[read |-> FALSE, isCSR |-> FALSE, CommonName |-> EmptyStr],
     [read |-> TRUE, isCSR |-> FALSE, CommonName |-> EmptyStr]}
    \cup [read : {TRUE}, isCSR : {TRUE}, CommonName : Names]

NoCsrFile == [read |-> FALSE, isCSR |-> FALSE, CommonName |-> EmptyStr]

-----------------------------------------------------------------------------
(* The invocations the model explores *)

\* --token values: none, an unparseable one, or a token for HostA (hostname
\* and CSR common name range over Names, so every relation between the
\* subject and them occurs)
SuppliedTokens == {EmptyToken, MalformedToken} \cup WellFormedTokens({HostA})

TimeFlags == {UnsetFlag, BadFlag, AbsFlag(2), DurFlag(1)}

\* the <<--not-before, --not-after>> pairs explored
ValidityFlags ==
    {<<UnsetFlag, UnsetFlag>>, <<BadFlag, UnsetFlag>>, <<UnsetFlag, BadFlag>>,
     <<DurFlag(1), UnsetFlag>>, <<UnsetFlag, DurFlag(1)>>,
     <<AbsFlag(2), DurFlag(1)>>, <<DurFlag(1), AbsFlag(2)>>,
     <<DurFlag(1), DurFlag(1)>>}

\* `step ca certificate <subject> <crt-file> <key-file>` with its flags
CertificateContexts ==
    [command : {"certificate"}, nargs : {2, 3},
     hostname : Names \cup {EmptyStr}, csrFile : {NoCsrFile},
     token : SuppliedTokens, offline : BOOLEAN, san : {<<>>, <<HostB>>},
     caURL : {EmptyStr, UrlB}, root : {EmptyStr, RootFlagPath},
     caConfig : {EmptyStr, ConfigPath},
     notBefore : TimeFlags, notAfter : TimeFlags]

\* `step ca sign <csr-file> <crt-file>`: it has no --san, --offline or
\* --ca-config flag, so these read as their zero values
SignContexts ==
    [command : {"sign"}, nargs : {2, 3},
     hostname : {EmptyStr}, csrFile : CsrFiles,
     token : SuppliedTokens, offline : {FALSE}, san : {<<>>},
     caURL : {EmptyStr, UrlB}, root : {EmptyStr, RootFlagPath},
     caConfig : {EmptyStr},
     notBefore : TimeFlags, notAfter : TimeFlags]

NoLocals ==
    [token |-> EmptyToken, subject |-> EmptyStr, CommonName |-> EmptyStr,
     pk |-> FALSE, caURL |-> EmptyStr, root |-> EmptyStr, options |-> <<>>,
     notBefore |-> 0, notAfter |-> 0]

NoEffects ==
    [keyPairs |-> 0,        \* key pairs generated
     parses |-> 0,          \* times the token was parsed
     stats |-> 0,           \* os.Stat calls on the default root path
     prompts |-> 0,         \* ui.Prompt calls
     issuer |-> <<>>,       \* newTokenFlow calls, with their arguments
     clients |-> <<>>,      \* ca.NewClient calls, with their arguments
     signs |-> <<>>,        \* requests sent with client.Sign
     offlineCAs |-> 0,      \* newOfflineCA calls
     offlineTokens |-> 0,   \* offlineCA.GenerateToken calls
     offlineSigns |-> <<>>, \* requests given to offlineCA.Sign
     writes |-> <<>>,       \* files written, in order
     checks |-> <<>>,       \* identity comparisons that passed, in order
     printed |-> <<>>]      \* ui.PrintSelected lines

Init ==
    /\ pc = "start"
    /\ ctx \in CertificateContexts \cup SignContexts
    /\ <<ctx.notBefore, ctx.notAfter>> \in ValidityFlags
    /\ env \in [rootCAPathExists : BOOLEAN, now : {0}]
    /\ loc = NoLocals
    /\ fx = NoEffects
    /\ err = "running"

-----------------------------------------------------------------------------
(* Helpers *)

\* the function returns e to the command runner
Return(e) ==
    /\ pc' = "done"
    /\ err' = e

Goto(label) ==
    /\ pc' = label
    /\ err' = err

\* flags.ParseTimeOrDuration(s) with the clock reading t: "" is the zero
\* time, a duration is added to the current time
ParseTimeOrDuration(flag, t) ==
    CASE flag.kind = "unset" -> [ok |-> TRUE, time |-> 0]
      [] flag.kind = "abs" -> [ok |-> TRUE, time |-> flag.val]
      [] flag.kind = "dur" -> [ok |-> TRUE, time |-> t + flag.val]
      [] OTHER -> [ok |-> FALSE, time |-> 0]

\* the clock readings a call of ParseTimeOrDuration may see: the clock is
\* read only for a duration, and never runs backwards
ClockReads(flag, from) ==
    IF flag.kind = "dur" THEN from..MaxNow ELSE {from}

\* variant: the hostname check is dropped
HostnameMatchesAlways(hostname, commonName) ==
    TRUE

\* line 175: hostname against the common name of the CSR built from the token
HostnameMatches(hostname, commonName) ==
    ToLower(hostname) = ToLower(commonName)

\* variant: the comparison is case-sensitive
SubjectMatchesCaseSensitive(claims, commonName) ==
    claims.Subject = commonName

\* line 352: token subject against the common name of the CSR
SubjectMatches(claims, commonName) ==
    ToLower(claims.Subject) = ToLower(commonName)

\* variant: the audience is compared without lower-casing it
IsBootstrapTokenCaseSensitive(claims) ==
    /\ Len(claims.SHA) > 0
    /\ Len(claims.Audience) > 0
    /\ HasPrefix(claims.Audience[1], HttpPrefix)

\* line 358: the token carries what is needed to bootstrap the client
IsBootstrapToken(claims) ==
    /\ Len(claims.SHA) > 0
    /\ Len(claims.Audience) > 0
    /\ HasPrefix(ToLower(claims.Audience[1]), HttpPrefix)

WithRootSHA256(sha) == [kind |-> "RootSHA256", val |-> sha]
WithRootFile(path) == [kind |-> "RootFile", val |-> path]

\* variant: a single --san value goes unnoticed
HasSANsMoreThanOne(san) ==
    Len(san) > 1

\* variant: the --san values are not looked at
HasSANsNever(san) ==
    FALSE

\* line 165: len(ctx.StringSlice("san")) > 0
HasSANs(san) ==
    Len(san) > 0

\* variant: --offline is not looked at, the online flow is always used
newCertificateActionIgnoresOffline ==
    /\ pc = "start"
    /\ ctx.command = "certificate"
    /\ UNCHANGED <<ctx, env, fx>>
    /\ IF ctx.nargs # 3
         THEN Return("NumberOfArguments") /\ UNCHANGED loc
       ELSE IF ctx.offline /\ ctx.token.len # 0
         THEN Return("IncompatibleFlagWithFlag offline token") /\ UNCHANGED loc
       ELSE IF ctx.token.len = 0
         THEN Goto("signCertificateTokenFlow")
              /\ loc' = [loc EXCEPT !.subject = ctx.hostname]
       ELSE IF HasSANs(ctx.san)
         THEN Return("MutuallyExclusiveFlags token san") /\ UNCHANGED loc
       ELSE Goto("CreateSignRequest")
            /\ loc' = [loc EXCEPT !.token = ctx.token]

\* variant: the token/san check comes before the offline/token check
newCertificateActionSanFirst ==
    /\ pc = "start"
    /\ ctx.command = "certificate"
    /\ UNCHANGED <<ctx, env, fx>>
    /\ IF ctx.nargs # 3
         THEN Return("NumberOfArguments") /\ UNCHANGED loc
       ELSE IF ctx.token.len # 0 /\ HasSANs(ctx.san)
         THEN Return("MutuallyExclusiveFlags token san") /\ UNCHANGED loc
       ELSE IF ctx.offline /\ ctx.token.len # 0
         THEN Return("IncompatibleFlagWithFlag offline token") /\ UNCHANGED loc
       ELSE IF ctx.offline
         THEN Goto("signCertificateOfflineFlow")
              /\ loc' = [loc EXCEPT !.subject = ctx.hostname]
       ELSE IF ctx.token.len = 0
         THEN Goto("signCertificateTokenFlow")
              /\ loc' = [loc EXCEPT !.subject = ctx.hostname]
       ELSE Goto("CreateSignRequest")
            /\ loc' = [loc EXCEPT !.token = ctx.token]

-----------------------------------------------------------------------------
(* newCertificateAction, lines 134-168: argument and flag checks, and the   *)
(* choice of the flow                                                       *)

newCertificateAction ==
    /\ pc = "start"
    /\ ctx.command = "certificate"
    /\ UNCHANGED <<ctx, env, fx>>
    /\ IF ctx.nargs # 3
         THEN Return("NumberOfArguments") /\ UNCHANGED loc
       ELSE IF ctx.offline /\ ctx.token.len # 0
         THEN Return("IncompatibleFlagWithFlag offline token") /\ UNCHANGED loc
       ELSE IF ctx.offline
         THEN Goto("signCertificateOfflineFlow")
              /\ loc' = [loc EXCEPT !.subject = ctx.hostname]
       ELSE IF ctx.token.len = 0
         THEN Goto("signCertificateTokenFlow")
              /\ loc' = [loc EXCEPT !.subject = ctx.hostname]
       ELSE IF HasSANs(ctx.san)
         THEN Return("MutuallyExclusiveFlags token san") /\ UNCHANGED loc
       ELSE Goto("CreateSignRequest")
            /\ loc' = [loc EXCEPT !.token = ctx.token]

\* variant: the token flow is started whether or not --token is given
signCertificateActionAlwaysTokenFlow ==
    /\ pc = "start"
    /\ ctx.command = "sign"
    /\ UNCHANGED <<ctx, env, fx>>
    /\ IF ctx.nargs # 2
         THEN Return("NumberOfArguments") /\ UNCHANGED loc
       ELSE IF ~ctx.csrFile.read
         THEN Return("pemutil.Read") /\ UNCHANGED loc
       ELSE IF ~ctx.csrFile.isCSR
         THEN Return("file is not a certificate request") /\ UNCHANGED loc
       ELSE Goto("signCertificateTokenFlow")
            /\ loc' = [loc EXCEPT !.subject = ctx.csrFile.CommonName,
                                  !.CommonName = ctx.csrFile.CommonName]

(* signCertificateAction, lines 193-220 *)
signCertificateAction ==
    /\ pc = "start"
    /\ ctx.command = "sign"
    /\ UNCHANGED <<ctx, env, fx>>
    /\ IF ctx.nargs # 2
         THEN Return("NumberOfArguments") /\ UNCHANGED loc
       ELSE IF ~ctx.csrFile.read
         THEN Return("pemutil.Read") /\ UNCHANGED loc
       ELSE IF ~ctx.csrFile.isCSR
         THEN Return("file is not a certificate request") /\ UNCHANGED loc
       ELSE IF ctx.token.len = 0
         THEN Goto("signCertificateTokenFlow")
              /\ loc' = [loc EXCEPT !.subject = ctx.csrFile.CommonName,
                                    !.CommonName = ctx.csrFile.CommonName]
       ELSE Goto("signCertificateRequest")
            /\ loc' = [loc EXCEPT !.token = ctx.token,
                                  !.CommonName = ctx.csrFile.CommonName]

\* where the caller continues once it holds a token
AfterTokenFlow ==
    IF ctx.command = "certificate" THEN "CreateSignRequest" ELSE "signCertificateRequest"

(* newTokenFlow: the authorization issuer.  It fails, or returns a token    *)
(* for the subject; the other claims are the issuer's choice.               *)
newTokenFlow(subject) ==
    WellFormedTokens({subject})

(* signCertificateTokenFlow, lines 235-270 *)
signCertificateTokenFlow ==
    /\ pc = "signCertificateTokenFlow"
    /\ UNCHANGED ctx
    /\ IF Len(ctx.caURL) = 0
         THEN Return("RequiredUnlessFlag ca-url token") /\ UNCHANGED <<env, loc, fx>>
       ELSE IF Len(ctx.root) = 0 /\ ~env.rootCAPathExists
         THEN /\ Return("RequiredUnlessFlag root token")
              /\ fx' = [fx EXCEPT !.stats = @ + 1]
              /\ UNCHANGED <<env, loc>>
       ELSE
         LET root == IF Len(ctx.root) = 0 THEN RootCAPath ELSE ctx.root
             stats == IF Len(ctx.root) = 0 THEN fx.stats + 1 ELSE fx.stats
         IN \E t1 \in ClockReads(ctx.notBefore, env.now) :
              LET nb == ParseTimeOrDuration(ctx.notBefore, t1) IN
              IF ~nb.ok
                THEN /\ Return("InvalidFlagValue not-before")
                     /\ fx' = [fx EXCEPT !.stats = stats]
                     /\ UNCHANGED <<env, loc>>
              ELSE \E t2 \in ClockReads(ctx.notAfter, t1) :
                LET na == ParseTimeOrDuration(ctx.notAfter, t2) IN
                IF ~na.ok
                  THEN /\ Return("InvalidFlagValue not-after")
                       /\ fx' = [fx EXCEPT !.stats = stats]
                       /\ env' = [env EXCEPT !.now = t1]
                       /\ UNCHANGED loc
                ELSE
                  /\ env' = [env EXCEPT !.now = t2]
                  /\ \/ \* the prompt for an empty subject fails
                        /\ loc.subject = EmptyStr
                        /\ Return("ui.Prompt")
                        /\ fx' = [fx EXCEPT !.stats = stats, !.prompts = @ + 1]
                        /\ UNCHANGED loc
                     \/ \E subject \in (IF loc.subject = EmptyStr THEN Names ELSE {loc.subject}) :
                          LET prompts == IF loc.subject = EmptyStr
                                           THEN fx.prompts + 1 ELSE fx.prompts
                              call == [subject |-> subject, sans |-> ctx.san,
                                       caURL |-> ctx.caURL, root |-> root,
                                       notBefore |-> nb.time, notAfter |-> na.time]
                          IN /\ fx' = [fx EXCEPT !.stats = stats, !.prompts = prompts,
                                                 !.issuer = Append(@, call)]
                             /\ \/ /\ Return("newTokenFlow")
                                   /\ UNCHANGED loc
                                \/ \E tok \in newTokenFlow(subject) :
                                     /\ Goto(AfterTokenFlow)
                                     /\ loc' = [loc EXCEPT !.token = tok]

(* ca.CreateSignRequest(token), lines 170-173 and 288-291: parses the       *)
(* token, generates a key pair and builds a CSR for the token's subject     *)
CreateSignRequest(next) ==
    /\ UNCHANGED <<ctx, env>>
    /\ IF ~loc.token.wf
         THEN /\ Return("CreateSignRequest")
              /\ fx' = [fx EXCEPT !.parses = @ + 1]
              /\ UNCHANGED loc
       ELSE \/ \* key generation or CSR creation fails
               /\ Return("CreateSignRequest")
               /\ fx' = [fx EXCEPT !.parses = @ + 1]
               /\ UNCHANGED loc
            \/ /\ Goto(next)
               /\ fx' = [fx EXCEPT !.parses = @ + 1, !.keyPairs = @ + 1]
               /\ loc' = [loc EXCEPT !.CommonName = loc.token.Subject, !.pk = TRUE]

(* newCertificateAction, lines 170-173 *)
newCertificateCreateSignRequest ==
    /\ pc = "CreateSignRequest"
    /\ CreateSignRequest("checkHostname")

(* newCertificateAction, lines 175-177 *)
newCertificateCheckHostname ==
    /\ pc = "checkHostname"
    /\ UNCHANGED <<ctx, env, loc>>
    /\ IF ~HostnameMatches(ctx.hostname, loc.CommonName)
         THEN Return("token subject and hostname do not match") /\ UNCHANGED fx
       ELSE /\ Goto("signCertificateRequest")
            /\ fx' = [fx EXCEPT !.checks = Append(@, "hostname")]

-----------------------------------------------------------------------------
(* signCertificateRequest, lines 330-402 *)

(* lines 331-342: read --root and --ca-url, parse the validity flags *)
signCertificateRequestValidity ==
    /\ pc = "signCertificateRequest"
    /\ UNCHANGED <<ctx, fx>>
    /\ \E t1 \in ClockReads(ctx.notBefore, env.now) :
         LET nb == ParseTimeOrDuration(ctx.notBefore, t1) IN
         IF ~nb.ok
           THEN Return("InvalidFlagValue not-before") /\ UNCHANGED <<env, loc>>
         ELSE \E t2 \in ClockReads(ctx.notAfter, t1) :
           LET na == ParseTimeOrDuration(ctx.notAfter, t2) IN
           IF ~na.ok
             THEN /\ Return("InvalidFlagValue not-after")
                  /\ env' = [env EXCEPT !.now = t1]
                  /\ UNCHANGED loc
           ELSE /\ Goto("parseToken")
                /\ env' = [env EXCEPT !.now = t2]
                /\ loc' = [loc EXCEPT !.root = ctx.root, !.caURL = ctx.caURL,
                                      !.notBefore = nb.time, !.notAfter = na.time]

\* variant: the subject of the token is not compared with the CSR
signCertificateRequestTokenNoCheck ==
    /\ pc = "parseToken"
    /\ UNCHANGED <<ctx, env, loc>>
    /\ fx' = [fx EXCEPT !.parses = @ + 1]
    /\ IF ~loc.token.wf
         THEN Return("error parsing flag --token")
       ELSE Goto("prepareClient")

(* lines 344-354: parse the token without verification, compare its        *)
(* subject with the common name of the CSR                                  *)
signCertificateRequestToken ==
    /\ pc = "parseToken"
    /\ UNCHANGED <<ctx, env, loc>>
    /\ IF ~loc.token.wf
         THEN /\ Return("error parsing flag --token")
              /\ fx' = [fx EXCEPT !.parses = @ + 1]
       ELSE IF ~SubjectMatches(loc.token, loc.CommonName)
         THEN /\ Return("token subject and CSR CommonName do not match")
              /\ fx' = [fx EXCEPT !.parses = @ + 1]
       ELSE /\ Goto("prepareClient")
            /\ fx' = [fx EXCEPT !.parses = @ + 1, !.checks = Append(@, "subject")]

\* variant: a --ca-url given by the caller wins over the audience
PrepareClientKeepsCaURL(claims, caURL, root, rootCAPathExists) ==
    IF IsBootstrapToken(claims)
      THEN [error |-> "nil",
            caURL |-> IF Len(caURL) = 0 THEN claims.Audience[1] ELSE caURL,
            root |-> root,
            options |-> <<WithRootSHA256(claims.SHA)>>, stat |-> FALSE]
    ELSE IF Len(caURL) = 0
      THEN [error |-> "RequiredFlag ca-url", caURL |-> caURL, root |-> root,
            options |-> <<>>, stat |-> FALSE]
    ELSE IF Len(root) = 0 /\ ~rootCAPathExists
      THEN [error |-> "RequiredFlag root", caURL |-> caURL, root |-> RootCAPath,
            options |-> <<>>, stat |-> TRUE]
    ELSE IF Len(root) = 0
      THEN [error |-> "nil", caURL |-> caURL, root |-> RootCAPath,
            options |-> <<WithRootFile(RootCAPath)>>, stat |-> TRUE]
    ELSE [error |-> "nil", caURL |-> caURL, root |-> root,
          options |-> <<WithRootFile(root)>>, stat |-> FALSE]

\* variant: a --root given by the caller is added to the fingerprint pin
PrepareClientAddsRootFile(claims, caURL, root, rootCAPathExists) ==
    IF IsBootstrapToken(claims)
      THEN [error |-> "nil", caURL |-> claims.Audience[1], root |-> root,
            options |-> IF Len(root) = 0
                          THEN <<WithRootSHA256(claims.SHA)>>
                          ELSE <<WithRootSHA256(claims.SHA), WithRootFile(root)>>,
            stat |-> FALSE]
    ELSE IF Len(caURL) = 0
      THEN [error |-> "RequiredFlag ca-url", caURL |-> caURL, root |-> root,
            options |-> <<>>, stat |-> FALSE]
    ELSE IF Len(root) = 0 /\ ~rootCAPathExists
      THEN [error |-> "RequiredFlag root", caURL |-> caURL, root |-> RootCAPath,
            options |-> <<>>, stat |-> TRUE]
    ELSE IF Len(root) = 0
      THEN [error |-> "nil", caURL |-> caURL, root |-> RootCAPath,
            options |-> <<WithRootFile(RootCAPath)>>, stat |-> TRUE]
    ELSE [error |-> "nil", caURL |-> caURL, root |-> root,
          options |-> <<WithRootFile(root)>>, stat |-> FALSE]

\* variant: the default root path is used without looking for it on disk
PrepareClientNoStat(claims, caURL, root, rootCAPathExists) ==
    IF IsBootstrapToken(claims)
      THEN [error |-> "nil", caURL |-> claims.Audience[1], root |-> root,
            options |-> <<WithRootSHA256(claims.SHA)>>, stat |-> FALSE]
    ELSE IF Len(caURL) = 0
      THEN [error |-> "RequiredFlag ca-url", caURL |-> caURL, root |-> root,
            options |-> <<>>, stat |-> FALSE]
    ELSE IF Len(root) = 0
      THEN [error |-> "nil", caURL |-> caURL, root |-> RootCAPath,
            options |-> <<WithRootFile(RootCAPath)>>, stat |-> FALSE]
    ELSE [error |-> "nil", caURL |-> caURL, root |-> root,
          options |-> <<WithRootFile(root)>>, stat |-> FALSE]

\* lines 356-372: the URL and the client options, or the error returned.
\* stat tells whether os.Stat was called on the default root path.
PrepareClient(claims, caURL, root, rootCAPathExists) ==
    IF IsBootstrapToken(claims)
      THEN [error |-> "nil", caURL |-> claims.Audience[1], root |-> root,
            options |-> <<WithRootSHA256(claims.SHA)>>, stat |-> FALSE]
    ELSE IF Len(caURL) = 0
      THEN [error |-> "RequiredFlag ca-url", caURL |-> caURL, root |-> root,
            options |-> <<>>, stat |-> FALSE]
    ELSE IF Len(root) = 0 /\ ~rootCAPathExists
      THEN [error |-> "RequiredFlag root", caURL |-> caURL, root |-> RootCAPath,
            options |-> <<>>, stat |-> TRUE]
    ELSE IF Len(root) = 0
      THEN [error |-> "nil", caURL |-> caURL, root |-> RootCAPath,
            options |-> <<WithRootFile(RootCAPath)>>, stat |-> TRUE]
    ELSE [error |-> "nil", caURL |-> caURL, root |-> root,
          options |-> <<WithRootFile(root)>>, stat |-> FALSE]

(* lines 356-372 *)
signCertificateRequestPrepareClient ==
    /\ pc = "prepareClient"
    /\ UNCHANGED <<ctx, env>>
    /\ LET r == PrepareClient(loc.token, loc.caURL, loc.root, env.rootCAPathExists) IN
         /\ fx' = [fx EXCEPT !.stats = IF r.stat THEN @ + 1 ELSE @]
         /\ loc' = [loc EXCEPT !.caURL = r.caURL, !.root = r.root, !.options = r.options]
         /\ IF r.error # "nil" THEN Return(r.error) ELSE Goto("NewClient")

(* lines 374-378: ca.NewClient(caURL, options...) *)
signCertificateRequestNewClient ==
    /\ pc = "NewClient"
    /\ UNCHANGED <<ctx, env, loc>>
    /\ fx' = [fx EXCEPT !.printed = Append(@, "CA"),
                        !.clients = Append(@, [url |-> loc.caURL, options |-> loc.options])]
    /\ \/ Return("ca.NewClient")
       \/ Goto("Sign")

\* variant: the validity is left out of the request
SignRequestDropsValidity(csrCommonName, token, notBefore, notAfter) ==
    [CsrPEM |-> csrCommonName, OTT |-> token,
     NotBefore |-> 0, NotAfter |-> 0]

\* lines 380-385: the request sent to the authority
SignRequest(csrCommonName, token, notBefore, notAfter) ==
    [CsrPEM |-> csrCommonName, OTT |-> token,
     NotBefore |-> notBefore, NotAfter |-> notAfter]

\* variant: a failed client.Sign is tried a second time
signCertificateRequestSignRetry ==
    /\ pc = "Sign"
    /\ UNCHANGED <<ctx, env, loc>>
    /\ fx' = [fx EXCEPT !.signs = Append(@,
                [url |-> loc.caURL,
                 req |-> SignRequest(loc.CommonName, loc.token, loc.notBefore, loc.notAfter)])]
    /\ \/ IF Len(fx.signs) = 0
            THEN Goto("Sign")
            ELSE Return("client.Sign")
       \/ Goto("writeCertificate")

(* lines 380-390: client.Sign(req) *)
signCertificateRequestSign ==
    /\ pc = "Sign"
    /\ UNCHANGED <<ctx, env, loc>>
    /\ fx' = [fx EXCEPT !.signs = Append(@,
                [url |-> loc.caURL,
                 req |-> SignRequest(loc.CommonName, loc.token, loc.notBefore, loc.notAfter)])]
    /\ \/ Return("client.Sign")
       \/ Goto("writeCertificate")

\* where the caller continues after signCertificateRequest returned nil
AfterSignCertificateRequest ==
    IF ctx.command = "certificate" THEN "writeKey" ELSE "report"

\* variant: the error of utils.WriteFile is dropped
signCertificateRequestWriteIgnoresError ==
    /\ pc = "writeCertificate"
    /\ UNCHANGED <<ctx, env, loc>>
    /\ \/ Return("pemutil.Serialize") /\ UNCHANGED fx
       \/ Goto(AfterSignCertificateRequest) /\ UNCHANGED fx
       \/ /\ Goto(AfterSignCertificateRequest)
          /\ fx' = [fx EXCEPT !.writes = Append(@, "crt")]

(* lines 392-401: serialize both certificates and write crtFile *)
signCertificateRequestWrite ==
    /\ pc = "writeCertificate"
    /\ UNCHANGED <<ctx, env, loc>>
    /\ \/ Return("pemutil.Serialize") /\ UNCHANGED fx
       \/ Return("utils.WriteFile") /\ UNCHANGED fx
       \/ /\ Goto(AfterSignCertificateRequest)
          /\ fx' = [fx EXCEPT !.writes = Append(@, "crt")]

\* variant: the error of the key write is dropped
WriteKeyIgnoresError(next) ==
    /\ UNCHANGED <<ctx, env, loc>>
    /\ \/ Goto(next) /\ UNCHANGED fx
       \/ /\ Goto(next)
          /\ fx' = [fx EXCEPT !.writes = Append(@, "key")]

-----------------------------------------------------------------------------
(* pemutil.Serialize(pk, pemutil.ToFile(keyFile, 0600)), lines 183-186 and  *)
(* 320-323                                                                  *)
WriteKey(next) ==
    /\ UNCHANGED <<ctx, env, loc>>
    /\ \/ Return("pemutil.Serialize key") /\ UNCHANGED fx
       \/ /\ Goto(next)
          /\ fx' = [fx EXCEPT !.writes = Append(@, "key")]

(* newCertificateAction, lines 183-186 *)
newCertificateWriteKey ==
    /\ pc = "writeKey"
    /\ WriteKey("report")

\* the lines ui.PrintSelected prints on success
Report ==
    IF ctx.command = "certificate"
      THEN <<"Certificate", "Private Key">>
      ELSE <<"Certificate">>

(* newCertificateAction, lines 188-190; signCertificateAction, lines 226-227 *)
reportAndReturn ==
    /\ pc = "report"
    /\ UNCHANGED <<ctx, env, loc>>
    /\ fx' = [fx EXCEPT !.printed = @ \o Report]
    /\ Return("nil")

-----------------------------------------------------------------------------
(* signCertificateOfflineFlow, lines 272-328 *)

\* variant: an empty --ca-config falls back to a default configuration
signCertificateOfflineFlowDefaultConfig ==
    /\ pc = "signCertificateOfflineFlow"
    /\ UNCHANGED <<ctx, env, loc, fx>>
    /\ Goto("newOfflineCA")

(* lines 273-276 *)
signCertificateOfflineFlow ==
    /\ pc = "signCertificateOfflineFlow"
    /\ UNCHANGED <<ctx, env, loc, fx>>
    /\ IF ctx.caConfig = EmptyStr
         THEN Return("InvalidFlagValue ca-config")
       ELSE Goto("newOfflineCA")

(* lines 278-281: newOfflineCA(configFile) *)
offlineNewOfflineCA ==
    /\ pc = "newOfflineCA"
    /\ UNCHANGED <<ctx, env, loc>>
    /\ fx' = [fx EXCEPT !.offlineCAs = @ + 1]
    /\ \/ Return("newOfflineCA")
       \/ Goto("GenerateToken")

(* lines 283-286: offlineCA.GenerateToken(ctx, subject) *)
offlineGenerateToken ==
    /\ pc = "GenerateToken"
    /\ UNCHANGED <<ctx, env>>
    /\ fx' = [fx EXCEPT !.offlineTokens = @ + 1]
    /\ \/ Return("offlineCA.GenerateToken") /\ UNCHANGED loc
       \/ \E tok \in WellFormedTokens({loc.subject}) :
            /\ Goto("offlineCreateSignRequest")
            /\ loc' = [loc EXCEPT !.token = tok]

(* lines 288-291 *)
offlineCreateSignRequest ==
    /\ pc = "offlineCreateSignRequest"
    /\ CreateSignRequest("parseValidity")

(* lines 293-299: parseValidity(ctx) *)
offlineParseValidity ==
    /\ pc = "parseValidity"
    /\ UNCHANGED <<ctx, fx>>
    /\ \E t1 \in ClockReads(ctx.notBefore, env.now) :
         LET nb == ParseTimeOrDuration(ctx.notBefore, t1) IN
         IF ~nb.ok
           THEN Return("InvalidFlagValue not-before") /\ UNCHANGED <<env, loc>>
         ELSE \E t2 \in ClockReads(ctx.notAfter, t1) :
           LET na == ParseTimeOrDuration(ctx.notAfter, t2) IN
           IF ~na.ok
             THEN /\ Return("InvalidFlagValue not-after")
                  /\ env' = [env EXCEPT !.now = t1]
                  /\ UNCHANGED loc
           ELSE /\ Goto("offlineSign")
                /\ env' = [env EXCEPT !.now = t2]
                /\ loc' = [loc EXCEPT !.notBefore = nb.time, !.notAfter = na.time]

\* variant: a failed offlineCA.Sign is tried a second time
offlineSignRetry ==
    /\ pc = "offlineSign"
    /\ UNCHANGED <<ctx, env, loc>>
    /\ fx' = [fx EXCEPT !.offlineSigns = Append(@,
                SignRequest(loc.CommonName, loc.token, loc.notBefore, loc.notAfter))]
    /\ \/ IF Len(fx.offlineSigns) = 0
            THEN Goto("offlineSign")
            ELSE Return("offlineCA.Sign")
       \/ Goto("offlineWriteCertificate")

(* lines 301-304: offlineCA.Sign(req) *)
offlineSign ==
    /\ pc = "offlineSign"
    /\ UNCHANGED <<ctx, env, loc>>
    /\ fx' = [fx EXCEPT !.offlineSigns = Append(@,
                SignRequest(loc.CommonName, loc.token, loc.notBefore, loc.notAfter))]
    /\ \/ Return("offlineCA.Sign")
       \/ Goto("offlineWriteCertificate")

(* lines 306-318 *)
offlineWriteCertificate ==
    /\ pc = "offlineWriteCertificate"
    /\ UNCHANGED <<ctx, env, loc>>
    /\ \/ Return("pemutil.Serialize") /\ UNCHANGED fx
       \/ Return("FileError") /\ UNCHANGED fx
       \/ /\ Goto("offlineWriteKey")
          /\ fx' = [fx EXCEPT !.writes = Append(@, "crt")]

(* lines 320-323 *)
offlineWriteKey ==
    /\ pc = "offlineWriteKey"
    /\ WriteKey("report")

-----------------------------------------------------------------------------

Next ==
    \/ newCertificateAction
    \/ signCertificateAction
    \/ signCertificateTokenFlow
    \/ newCertificateCreateSignRequest
    \/ newCertificateCheckHostname
    \/ signCertificateRequestValidity
    \/ signCertificateRequestToken
    \/ signCertificateRequestPrepareClient
    \/ signCertificateRequestNewClient
    \/ signCertificateRequestSign
    \/ signCertificateRequestWrite
    \/ newCertificateWriteKey
    \/ reportAndReturn
    \/ signCertificateOfflineFlow
    \/ offlineNewOfflineCA
    \/ offlineGenerateToken
    \/ offlineCreateSignRequest
    \/ offlineParseValidity
    \/ offlineSign
    \/ offlineWriteCertificate
    \/ offlineWriteKey

Spec == Init /\ [][Next]_vars

TypeOK ==
    /\ ctx \in CertificateContexts \cup SignContexts
    /\ env.now \in 0..MaxNow
    /\ loc.notBefore \in Nat /\ loc.notAfter \in Nat
    /\ Len(loc.options) <= 1

-----------------------------------------------------------------------------
(* Vocabulary of the properties *)

CasePairs ==
    {<<"a", "A">>, <<"b", "B">>, <<"c", "C">>, <<"h", "H">>,
     <<"p", "P">>, <<"s", "S">>, <<"t", "T">>}

\* a and b are the same string up to the case of their letters
EqualIgnoringCase(a, b) ==
    /\ Len(a) = Len(b)
    /\ \A i \in 1..Len(a) :
         \/ a[i] = b[i]
         \/ <<a[i], b[i]>> \in CasePairs
         \/ <<b[i], a[i]>> \in CasePairs

\* s starts with "http" in any mix of cases
LooksLikeHttp(s) ==
    /\ Len(s) >= 4
    /\ s[1] \in {"h", "H"}
    /\ s[2] \in {"t", "T"}
    /\ s[3] \in {"t", "T"}
    /\ s[4] \in {"p", "P"}

\* the token has a fingerprint and an HTTP(S)-looking first audience entry
Pinnable(token) ==
    /\ token.SHA # EmptyStr
    /\ token.Audience # <<>>
    /\ LooksLikeHttp(token.Audience[1])

SubjectMismatch == "token subject and CSR CommonName do not match"
HostnameMismatch == "token subject and hostname do not match"
MutuallyExclusive == "MutuallyExclusiveFlags token san"
Incompatible == "IncompatibleFlagWithFlag offline token"

\* positions inside signCertificateRequest
InSignCertificateRequest ==
    {"signCertificateRequest", "parseToken", "prepareClient", "NewClient",
     "Sign", "writeCertificate"}

NoAuthorityContact ==
    /\ fx.clients = <<>>
    /\ fx.signs = <<>>
    /\ fx.offlineSigns = <<>>

TokenAndSan ==
    /\ ctx.command = "certificate"
    /\ ctx.token.len # 0
    /\ Len(ctx.san) > 0

-----------------------------------------------------------------------------
(* C1: in signCertificateRequest the subject check lets the run continue to *)
(* the trust-anchor resolution exactly when the token subject and the CSR   *)
(* common name are equal ignoring case; otherwise the run ends with the     *)
(* subject-mismatch error, and then no client was constructed, no signing   *)
(* request was sent and no file was written.                                *)
C1_Step ==
    pc = "parseToken" /\ loc.token.wf =>
        IF EqualIgnoringCase(loc.token.Subject, loc.CommonName)
          THEN pc' = "prepareClient" /\ err' = "running"
          ELSE pc' = "done" /\ err' = SubjectMismatch

C1_Rejected ==
    err = SubjectMismatch =>
        /\ ~EqualIgnoringCase(loc.token.Subject, loc.CommonName)
        /\ NoAuthorityContact
        /\ fx.writes = <<>>

C1_SubjectCheck == [][C1_Step]_vars /\ []C1_Rejected

\* the check accepted a subject and a common name that differ only in case
C1_Witness ==
    /\ pc = "prepareClient"
    /\ loc.token.Subject # loc.CommonName

(* C2: in the online new-certificate flow the common name of the CSR built  *)
(* from the token must equal the hostname ignoring case; on a mismatch the  *)
(* action returns the mismatch error before signCertificateRequest runs:    *)
(* the token was parsed by CreateSignRequest only, no authority was         *)
(* contacted and no file was written.                                       *)
C2_Step ==
    pc = "checkHostname" =>
        IF EqualIgnoringCase(ctx.hostname, loc.CommonName)
          THEN pc' = "signCertificateRequest" /\ err' = "running"
          ELSE pc' = "done" /\ err' = HostnameMismatch /\ fx' = fx

C2_Rejected ==
    err = HostnameMismatch =>
        /\ ctx.command = "certificate" /\ ~ctx.offline
        /\ ~EqualIgnoringCase(ctx.hostname, loc.CommonName)
        /\ fx.parses = 1
        /\ NoAuthorityContact
        /\ fx.writes = <<>>

C2_Accepted ==
    ctx.command = "certificate" /\ pc \in InSignCertificateRequest =>
        EqualIgnoringCase(ctx.hostname, loc.CommonName)

C2_HostnameCheck == [][C2_Step]_vars /\ [](C2_Rejected /\ C2_Accepted)

\* a token for one name was used with another hostname, and a key pair had
\* been generated for it
C2_Witness ==
    /\ pc = "done"
    /\ err = HostnameMismatch
    /\ ctx.token.len # 0
    /\ fx.keyPairs = 1

(* C3, as stated: a token together with a non-empty SAN list always yields  *)
(* the mutually-exclusive-options error, whatever the other inputs are.     *)
C3_Original ==
    pc = "done" /\ TokenAndSan /\ ctx.nargs = 3 => err = MutuallyExclusive

(* C3, amended: a token together with a non-empty SAN list yields the       *)
(* mutually-exclusive-options error whenever --offline is not set, whatever *)
(* --ca-url, --root, the validity flags and the hostname are; with          *)
(* --offline the action returns the incompatible-flags error instead.       *)
C3_MutuallyExclusive ==
    pc = "done" /\ TokenAndSan /\ ctx.nargs = 3 =>
        err = (IF ctx.offline THEN Incompatible ELSE MutuallyExclusive)

\* the error is returned although --ca-url and --root are missing and
\* --not-after is malformed
C3_Witness ==
    /\ pc = "done"
    /\ TokenAndSan
    /\ err = MutuallyExclusive
    /\ ctx.caURL = EmptyStr /\ ctx.root = EmptyStr
    /\ ctx.notAfter = BadFlag

(* C4: when a token and a --san value are both supplied the action fails at *)
(* once: no key pair is generated, the token is not parsed, the issuer is   *)
(* not invoked, no client is constructed, no signing request is sent and no *)
(* file is written.                                                         *)
C4_FailsImmediately ==
    TokenAndSan =>
        /\ pc \in {"start", "done"}
        /\ pc = "done" => err \notin {"nil", "running"}
        /\ fx = NoEffects

\* a run that would have gone through without the --san value
C4_Witness ==
    /\ pc = "done"
    /\ TokenAndSan
    /\ ctx.token.wf /\ Pinnable(ctx.token)
    /\ ctx.hostname = ctx.token.Subject
    /\ ~ctx.offline /\ ctx.nargs = 3
    /\ err = MutuallyExclusive

-----------------------------------------------------------------------------
(* Trust-anchor resolution *)

PinOnly(token) == <<[kind |-> "RootSHA256", val |-> token.SHA]>>
FileOnly(path) == <<[kind |-> "RootFile", val |-> path]>>

MissingOption == {"RequiredFlag ca-url", "RequiredFlag root"}

\* no fingerprint, or no audience, or a first audience entry that does not
\* look like an HTTP(S) URL
NotPinnable(token) ==
    \/ token.SHA = EmptyStr
    \/ token.Audience = <<>>
    \/ ~LooksLikeHttp(token.Audience[1])

(* C5: whenever the token has a non-empty fingerprint and an HTTP(S)-       *)
(* looking first audience entry, the resolution selects pinned mode: the    *)
(* client options are the fingerprint pin alone, the --root value is not    *)
(* used, the default root path is not looked up on disk, and no             *)
(* missing-option error is returned, also without --ca-url and --root.      *)
C5_Step ==
    pc = "prepareClient" /\ Pinnable(loc.token) =>
        /\ pc' = "NewClient" /\ err' = "running"
        /\ loc'.options = PinOnly(loc.token)
        /\ fx'.stats = fx.stats

C5_Client ==
    Pinnable(loc.token) =>
        /\ \A i \in 1..Len(fx.clients) : fx.clients[i].options = PinOnly(loc.token)
        /\ err \notin MissingOption

C5_PinnedMode == [][C5_Step]_vars /\ []C5_Client

\* zero configuration: neither --ca-url nor --root, no default root on disk,
\* and the client is about to be built from the pin
C5_Witness ==
    /\ pc = "NewClient"
    /\ Pinnable(loc.token)
    /\ ctx.caURL = EmptyStr /\ ctx.root = EmptyStr /\ ~env.rootCAPathExists
    /\ loc.options = PinOnly(loc.token)

(* C6: the URL the client is constructed with and the signing request is    *)
(* sent to is the first audience entry whenever the token has a fingerprint *)
(* and that entry looks like an HTTP(S) URL, whatever --ca-url is; in every *)
(* other case it is the --ca-url value.                                     *)
C6_AuthorityURL ==
    LET url == IF Pinnable(loc.token) THEN loc.token.Audience[1] ELSE ctx.caURL
    IN /\ \A i \in 1..Len(fx.clients) : fx.clients[i].url = url
       /\ \A i \in 1..Len(fx.signs) : fx.signs[i].url = url

\* a request was sent to the audience entry although --ca-url named another
\* authority
C6_Witness ==
    /\ Len(fx.signs) = 1
    /\ Pinnable(loc.token)
    /\ ctx.caURL = UrlB
    /\ fx.signs[1].url # UrlB

(* C7: every client is constructed with exactly one trust anchor, never a   *)
(* fingerprint pin together with a root file and never without either; when *)
(* the token can be pinned and a root file path is available too, the pin   *)
(* is the one used.                                                         *)
C7_ExactlyOneAnchor ==
    \A i \in 1..Len(fx.clients) :
        LET options == fx.clients[i].options
            kinds == {options[j].kind : j \in 1..Len(options)}
        IN /\ Len(options) = 1
           /\ kinds \in {{"RootSHA256"}, {"RootFile"}}
           /\ Pinnable(loc.token) /\ (ctx.root # EmptyStr \/ env.rootCAPathExists)
                => kinds = {"RootSHA256"}

\* a client was built for a pinnable token while --root was given
C7_Witness ==
    /\ Len(fx.clients) = 1
    /\ Pinnable(loc.token)
    /\ ctx.root # EmptyStr

(* C8: when pinned mode does not apply, the resolution returns a            *)
(* missing-option error if --ca-url is absent, and if --root is absent and  *)
(* the default root path is not on disk; no client is constructed and no    *)
(* request is sent then.  Otherwise file mode is selected with the --root   *)
(* path, or the default path when --root is absent.                         *)
C8_Step ==
    pc = "prepareClient" /\ NotPinnable(loc.token) =>
        IF ctx.caURL = EmptyStr
          THEN pc' = "done" /\ err' = "RequiredFlag ca-url"
        ELSE IF ctx.root = EmptyStr /\ ~env.rootCAPathExists
          THEN pc' = "done" /\ err' = "RequiredFlag root"
        ELSE /\ pc' = "NewClient" /\ err' = "running"
             /\ loc'.options =
                  FileOnly(IF ctx.root = EmptyStr THEN RootCAPath ELSE ctx.root)

C8_Missing ==
    err \in MissingOption =>
        /\ NotPinnable(loc.token)
        /\ NoAuthorityContact

C8_FileMode == [][C8_Step]_vars /\ []C8_Missing

\* a token without fingerprint, --ca-url given, and no root to be found
C8_Witness ==
    /\ pc = "done"
    /\ err = "RequiredFlag root"
    /\ loc.token.wf

-----------------------------------------------------------------------------
(* The offline flow *)

OfflineRun ==
    /\ ctx.command = "certificate"
    /\ ctx.nargs = 3
    /\ ctx.offline
    /\ ctx.token.len = 0

\* the positions of an offline run, in the order of the code
OfflinePositions ==
    <<"signCertificateOfflineFlow", "newOfflineCA", "GenerateToken",
      "offlineCreateSignRequest", "parseValidity", "offlineSign",
      "offlineWriteCertificate", "offlineWriteKey", "report">>

PositionOf(p) ==
    CHOOSE i \in 1..Len(OfflinePositions) : OfflinePositions[i] = p

Stages ==
    <<"Uninitialized", "ConfigLoaded", "TokenGenerated", "CSRBuilt", "Signed", "Persisted">>

\* the stage the run is in at position p: a stage is entered when the call
\* that produces it has returned without error
StageAt(p) ==
    CASE p \in {"signCertificateOfflineFlow", "newOfflineCA"} -> 1
      [] p = "GenerateToken" -> 2
      [] p = "offlineCreateSignRequest" -> 3
      [] p \in {"parseValidity", "offlineSign"} -> 4
      [] p \in {"offlineWriteCertificate", "offlineWriteKey"} -> 5
      [] p = "report" -> 6

(* C9: the offline flow goes through Uninitialized, ConfigLoaded,           *)
(* TokenGenerated, CSRBuilt, Signed, Persisted in that order: every step    *)
(* moves to the next position of the code or ends the run, a stage is       *)
(* entered only from its predecessor, no call is made twice, a step that    *)
(* ends the run before the report returns an error, and files are written   *)
(* only from the stage Signed.                                              *)
C9_Step ==
    OfflineRun /\ pc \notin {"start", "done"} =>
        /\ pc' # "done" =>
             /\ PositionOf(pc') = PositionOf(pc) + 1
             /\ StageAt(pc') \in {StageAt(pc), StageAt(pc) + 1}
             /\ err' = "running"
        /\ pc' = "done" => (err' = "nil") = (pc = "report")
        /\ fx'.writes # fx.writes => Stages[StageAt(pc)] = "Signed"

C9_Stage ==
    OfflineRun =>
        /\ fx.offlineCAs <= 1
        /\ fx.offlineTokens <= fx.offlineCAs
        /\ fx.keyPairs <= fx.offlineTokens
        /\ Len(fx.offlineSigns) <= fx.keyPairs
        /\ fx.writes \in {<<>>, <<"crt">>, <<"crt", "key">>}
        /\ fx.writes # <<>> => Len(fx.offlineSigns) = 1
        /\ pc \notin {"start", "done"} =>
             /\ fx.offlineCAs = (IF StageAt(pc) >= 2 THEN 1 ELSE 0)
             /\ fx.offlineTokens = (IF StageAt(pc) >= 3 THEN 1 ELSE 0)
             /\ fx.keyPairs = (IF StageAt(pc) >= 4 THEN 1 ELSE 0)
             /\ Len(fx.offlineSigns) = (IF StageAt(pc) >= 5 THEN 1 ELSE 0)
             /\ (fx.writes = <<"crt", "key">>) = (Stages[StageAt(pc)] = "Persisted")
        /\ err = "nil" => fx.writes = <<"crt", "key">>

C9_OfflineStages == [][C9_Step]_vars /\ []C9_Stage

\* an offline run went through every stage
C9_Witness ==
    /\ OfflineRun
    /\ pc = "done" /\ err = "nil"
    /\ fx.offlineCAs = 1 /\ fx.offlineTokens = 1 /\ fx.keyPairs = 1
    /\ Len(fx.offlineSigns) = 1
    /\ fx.writes = <<"crt", "key">>

(* C10: an offline run without --ca-config fails at once with a             *)
(* configuration error: no offline authority is instantiated, no token and  *)
(* no key pair are generated, no file is written, and no default path is    *)
(* looked up in place of the missing configuration.                         *)
ConfigurationErrors ==
    {"NumberOfArguments", Incompatible, "InvalidFlagValue ca-config"}

C10_NoConfig ==
    ctx.command = "certificate" /\ ctx.offline /\ ctx.caConfig = EmptyStr =>
        /\ pc \in {"start", "signCertificateOfflineFlow", "done"}
        /\ pc = "done" => err \in ConfigurationErrors
        /\ pc = "done" /\ OfflineRun => err = "InvalidFlagValue ca-config"
        /\ fx = NoEffects

\* the run ended on the missing --ca-config
C10_Witness ==
    /\ pc = "done"
    /\ OfflineRun
    /\ ctx.caConfig = EmptyStr
    /\ err = "InvalidFlagValue ca-config"

-----------------------------------------------------------------------------
(* Use of the network, of the issuer and of the authority *)

\* positions at which a remote party is about to be reached: the token flow
\* and everything inside signCertificateRequest
RemotePositions ==
    {"signCertificateTokenFlow"} \cup InSignCertificateRequest

NoRemoteEffect ==
    /\ fx.issuer = <<>>
    /\ fx.clients = <<>>
    /\ fx.signs = <<>>

(* C11: a run of the new-certificate action with --offline never uses a     *)
(* network transport: it is never at a position of the token flow or of     *)
(* signCertificateRequest, the issuer is never called, no client is         *)
(* constructed and no request is sent to a remote authority.  Every call    *)
(* whose outcome the network decides is absent from the run, so its outcome *)
(* does not depend on the network.                                          *)
C11_OfflineNoNetwork ==
    ctx.command = "certificate" /\ ctx.offline =>
        /\ pc \notin RemotePositions
        /\ NoRemoteEffect
        /\ fx.printed \in {<<>>, <<"Certificate", "Private Key">>}

\* an offline run succeeded without any --ca-url to reach
C11_Witness ==
    /\ ctx.offline
    /\ ctx.caURL = EmptyStr
    /\ pc = "done" /\ err = "nil"
    /\ Len(fx.offlineSigns) = 1
    /\ NoRemoteEffect

(* C12: the token flow is started only when no token was supplied: with a   *)
(* non-empty --token signCertificateTokenFlow is never entered, the issuer  *)
(* is never called and every request sent to the authority carries the      *)
(* caller's token; without a token the flow is entered at most once, from   *)
(* the start of the action, and the issuer is called at most once.          *)
C12_Step ==
    pc' = "signCertificateTokenFlow" =>
        /\ pc = "start"
        /\ ctx.token.len = 0

C12_Supplied ==
    /\ Len(fx.issuer) <= 1
    /\ ctx.token.len # 0 =>
         /\ pc # "signCertificateTokenFlow"
         /\ fx.issuer = <<>>
         /\ fx.prompts = 0
         /\ \A i \in 1..Len(fx.signs) : fx.signs[i].req.OTT = ctx.token

C12_IssuerOnlyWithoutToken == [][C12_Step]_vars /\ []C12_Supplied

\* `step ca sign --token` sent the caller's token to the authority
C12_Witness ==
    /\ ctx.command = "sign"
    /\ ctx.token.len # 0
    /\ Len(fx.signs) = 1
    /\ fx.signs[1].req.OTT = ctx.token
    /\ fx.issuer = <<>>

(* C13: there is no retry: an invocation hands at most one signing request  *)
(* to an authority, remote or offline; when that call fails the invocation  *)
(* returns its error in the same step, and nothing follows a return: no     *)
(* further signing attempt, no token acquisition and no file write.         *)
SignErrors == {"client.Sign", "offlineCA.Sign"}

C13_Step ==
    /\ pc # "done"
    /\ pc \in {"Sign", "offlineSign"} /\ pc' = "done" =>
         /\ err' \in SignErrors
         /\ fx'.writes = <<>>
         /\ fx'.issuer = fx.issuer

C13_Once ==
    /\ Len(fx.signs) + Len(fx.offlineSigns) <= 1
    /\ err \in SignErrors =>
         /\ pc = "done"
         /\ Len(fx.signs) + Len(fx.offlineSigns) = 1
         /\ fx.writes = <<>>
         /\ Len(fx.issuer) <= 1

C13_NoRetry == [][C13_Step]_vars /\ []C13_Once

\* the authority refused the request of a token-flow run
C13_Witness ==
    /\ pc = "done"
    /\ err = "client.Sign"
    /\ Len(fx.signs) = 1
    /\ Len(fx.issuer) = 1

-----------------------------------------------------------------------------
(* The validity window *)

\* every request handed to an authority, remote or offline
Requests ==
    {fx.signs[i].req : i \in 1..Len(fx.signs)}
        \cup {fx.offlineSigns[i] : i \in 1..Len(fx.offlineSigns)}

(* C14, as stated: every signing request handed to an authority has         *)
(* notBefore <= notAfter whenever both are set, and an unset value is       *)
(* passed as unset (the zero time).                                         *)
C14_Original ==
    \A r \in Requests :
        /\ r.NotBefore # 0 /\ r.NotAfter # 0 => r.NotBefore <= r.NotAfter
        /\ ctx.notBefore.kind = "unset" => r.NotBefore = 0
        /\ ctx.notAfter.kind = "unset" => r.NotAfter = 0

(* C16: a validity flag given as a duration d resolves to the clock reading *)
(* of its resolution plus d, and the resolved values are the ones the       *)
(* request hands to the authority: they are not changed between the         *)
(* resolution and the call of client.Sign.                                  *)
C16_Step ==
    /\ pc = "signCertificateRequest" /\ pc' = "parseToken" =>
         /\ ctx.notAfter.kind = "dur" =>
              loc'.notAfter = env'.now + ctx.notAfter.val
         /\ ctx.notBefore.kind = "dur" =>
              \E t \in env.now..env'.now : loc'.notBefore = t + ctx.notBefore.val
         /\ ctx.notBefore.kind = "dur" /\ ctx.notAfter.kind # "dur" =>
              loc'.notBefore = env'.now + ctx.notBefore.val
    /\ pc \in {"parseToken", "prepareClient", "NewClient", "Sign"} =>
         /\ loc'.notBefore = loc.notBefore
         /\ loc'.notAfter = loc.notAfter
         /\ env'.now = env.now

C16_Sent ==
    \A i \in 1..Len(fx.signs) :
        /\ fx.signs[i].req.NotBefore = loc.notBefore
        /\ fx.signs[i].req.NotAfter = loc.notAfter
        /\ ctx.notAfter.kind = "dur" =>
             fx.signs[i].req.NotAfter = env.now + ctx.notAfter.val

C16_RelativeValidity == [][C16_Step]_vars /\ []C16_Sent

\* --not-after=1 was resolved when the clock read 1, and 2 was sent
C16_Witness ==
    /\ Len(fx.signs) = 1
    /\ ctx.notAfter = DurFlag(1)
    /\ env.now = 1
    /\ fx.signs[1].req.NotAfter = 2

-----------------------------------------------------------------------------
(* Errors and the report *)

OutputPaths == {"Certificate", "Private Key"}

PathsIn(printed) ==
    {i \in 1..Len(printed) : printed[i] \in OutputPaths}

PathsReported == PathsIn(fx.printed) # {}

\* the files a successful run of the command has written
ExpectedWrites ==
    IF ctx.command = "certificate" THEN <<"crt", "key">> ELSE <<"crt">>

\* the errors the code at position p returns
ErrorsAt(p) ==
    CASE p = "start" ->
           {"NumberOfArguments", Incompatible, MutuallyExclusive,
            "pemutil.Read", "file is not a certificate request"}
      [] p = "signCertificateTokenFlow" ->
           {"RequiredUnlessFlag ca-url token", "RequiredUnlessFlag root token",
            "InvalidFlagValue not-before", "InvalidFlagValue not-after",
            "ui.Prompt", "newTokenFlow"}
      [] p \in {"CreateSignRequest", "offlineCreateSignRequest"} -> {"CreateSignRequest"}
      [] p = "checkHostname" -> {HostnameMismatch}
      [] p \in {"signCertificateRequest", "parseValidity"} ->
           {"InvalidFlagValue not-before", "InvalidFlagValue not-after"}
      [] p = "parseToken" -> {"error parsing flag --token", SubjectMismatch}
      [] p = "prepareClient" -> MissingOption
      [] p = "NewClient" -> {"ca.NewClient"}
      [] p = "Sign" -> {"client.Sign"}
      [] p = "writeCertificate" -> {"pemutil.Serialize", "utils.WriteFile"}
      [] p \in {"writeKey", "offlineWriteKey"} -> {"pemutil.Serialize key"}
      [] p = "signCertificateOfflineFlow" -> {"InvalidFlagValue ca-config"}
      [] p = "newOfflineCA" -> {"newOfflineCA"}
      [] p = "GenerateToken" -> {"offlineCA.GenerateToken"}
      [] p = "offlineSign" -> {"offlineCA.Sign"}
      [] p = "offlineWriteCertificate" -> {"pemutil.Serialize", "FileError"}
      [] OTHER -> {}

(* C15: the output paths are reported only by a run in which every step,    *)
(* the file writes included, succeeded; a step that fails ends the run with *)
(* the error of that step, no step follows it and no path is reported.      *)
C15_Step ==
    /\ pc # "done"
    /\ pc' = "done" /\ pc # "report" =>
         /\ err' \in ErrorsAt(pc)
         /\ PathsIn(fx'.printed) = PathsIn(fx.printed)
         /\ fx'.writes = fx.writes
    /\ pc' # "done" => err' = "running"

C15_Reported ==
    /\ PathsReported =>
         /\ pc = "done" /\ err = "nil"
         /\ fx.writes = ExpectedWrites
         /\ Len(fx.signs) + Len(fx.offlineSigns) = 1
    /\ err = "nil" =>
         /\ PathsReported
         /\ SubSeq(fx.printed, Len(fx.printed) - Len(Report) + 1, Len(fx.printed)) = Report
    /\ err \notin {"nil", "running"} => pc = "done" /\ ~PathsReported

C15_ErrorsPropagate == [][C15_Step]_vars /\ []C15_Reported

\* `step ca sign` went through and reported the certificate
C15_Witness ==
    /\ ctx.command = "sign"
    /\ pc = "done" /\ err = "nil"
    /\ fx.printed = <<"CA", "Certificate">>
    /\ fx.writes = <<"crt">>

-----------------------------------------------------------------------------
(* The order of the steps *)

SignCalls == Len(fx.signs) + Len(fx.offlineSigns)

Checked(what) ==
    \E i \in 1..Len(fx.checks) : fx.checks[i] = what

(* C17, as stated: in every flow, the offline one included, no signing call *)
(* is made in a run where no identity comparison has passed first.          *)
C17_Original ==
    SignCalls > 0 => fx.checks # <<>>

(* C17, amended: the online flows run in the order request build, identity  *)
(* comparison, trust anchor resolution, signing call, persistence; the      *)
(* offline flow runs request build, signing call, persistence and makes no  *)
(* identity comparison and no trust anchor resolution.                      *)
C17_Online ==
    ~ctx.offline =>
        /\ Len(fx.offlineSigns) = 0
        /\ fx.checks # <<>> =>
             (IF ctx.command = "certificate" THEN fx.keyPairs = 1 ELSE loc.CommonName # EmptyStr)
        /\ loc.options # <<>> => Checked("subject")
        /\ Len(fx.clients) > 0 => Checked("subject") /\ Len(loc.options) = 1
        /\ Len(fx.signs) > 0 =>
             /\ Len(fx.clients) = 1
             /\ fx.checks = (IF ctx.command = "certificate"
                               THEN <<"hostname", "subject">> ELSE <<"subject">>)
        /\ fx.writes # <<>> => Len(fx.signs) = 1

C17_Offline ==
    ctx.offline =>
        /\ fx.checks = <<>>
        /\ Len(fx.signs) = 0 /\ Len(fx.clients) = 0 /\ loc.options = <<>>
        /\ Len(fx.offlineSigns) > 0 => fx.keyPairs = 1 /\ fx.offlineTokens = 1
        /\ fx.writes # <<>> => Len(fx.offlineSigns) = 1

C17_FlowOrder == C17_Online /\ C17_Offline

\* an online token-flow run that has signed after both comparisons passed
C17_Witness ==
    /\ ctx.command = "certificate" /\ ~ctx.offline
    /\ Len(fx.issuer) = 1
    /\ Len(fx.signs) = 1
    /\ fx.checks = <<"hostname", "subject">>
    /\ fx.writes = <<"crt", "key">>

(* C18: the key file is written only after the certificate file was        *)
(* written in the same run; a failure of the key write ends the run with   *)
(* its error and the certificate file stays written without its key.       *)
C18_KeyAfterCertificate ==
    /\ \A i \in 1..Len(fx.writes) :
           fx.writes[i] = "key" =>
               i = Len(ExpectedWrites) /\ fx.writes[1] = "crt" /\ ctx.command = "certificate"
    /\ pc \in {"writeKey", "offlineWriteKey"} => fx.writes = <<"crt">>
    /\ err = "pemutil.Serialize key" =>
           /\ pc = "done"
           /\ fx.writes = <<"crt">>
           /\ ~PathsReported

\* the offline key write failed after the certificate was written
C18_Witness ==
    /\ ctx.offline
    /\ pc = "done"
    /\ err = "pemutil.Serialize key"
    /\ fx.writes = <<"crt">>

-----------------------------------------------------------------------------
(* --offline and --token *)

OfflineWithToken ==
    /\ ctx.command = "certificate"
    /\ ctx.offline
    /\ ctx.token.len # 0

RejectedAtOnce ==
    /\ pc \in {"start", "done"}
    /\ fx = NoEffects
    /\ loc = NoLocals
    /\ pc = "done" => err = Incompatible

(* C19, as stated: a new-certificate run with --offline and a non-empty    *)
(* --token returns the incompatible-flags error before anything else, for  *)
(* every value of the other inputs.                                        *)
C19_Original ==
    OfflineWithToken => RejectedAtOnce

(* C19, amended: the same for a run called with its three positional       *)
(* arguments; the count of the arguments is checked before the flags.      *)
C19_IncompatibleFirst ==
    /\ OfflineWithToken /\ ctx.nargs = 3 => RejectedAtOnce
    /\ OfflineWithToken /\ ctx.nargs # 3 =>
         /\ pc \in {"start", "done"}
         /\ fx = NoEffects
         /\ pc = "done" => err = "NumberOfArguments"

\* rejected with --san given as well and no --ca-config
C19_Witness ==
    /\ OfflineWithToken /\ ctx.nargs = 3
    /\ HasSANs(ctx.san)
    /\ ctx.caConfig = EmptyStr
    /\ pc = "done"
    /\ err = Incompatible

-----------------------------------------------------------------------------
(* The validity window of the token flow *)

(* C20, as stated: in the online token flow the validity values given to   *)
(* the issuer of the token equal the ones sent to the authority in the     *)
(* signing request, also for durations with the clock advancing between.   *)
C20_ResolvedOnce ==
    \A i \in 1..Len(fx.issuer) : \A j \in 1..Len(fx.signs) :
        /\ fx.issuer[i].notBefore = fx.signs[j].req.NotBefore
        /\ fx.issuer[i].notAfter = fx.signs[j].req.NotAfter

====
